---------------------------- MODULE Spec2Model ----------------------------
(***************************************************************************)
(* Model of converter.py, the annotation converter between the Labelme     *)
(* JSON format (format A), the YOLO text format (format B) and the VIA     *)
(* single-document JSON format (format C).                                 *)
(*                                                                         *)
(* Python strings are sequences of one-character strings, so that          *)
(* str.replace, str.split and list.sort act on them as they do in Python.  *)
(* Every command of the converter is one action: the converter is          *)
(* synchronous and single-threaded, a run is one atomic step from the      *)
(* directory it finds to the directory it leaves.                          *)
(***************************************************************************)
EXTENDS Integers, Sequences, FiniteSets, TLC

VARIABLES
    cmd,         \* the command that ran last ("none" before any run)
    corpus,      \* the format-A input directory: its *.json files in glob order
    images,      \* the image files beside them: path -> [size, width, height]
    label_list,  \* the label table handed to the format-B converters
    outdir,      \* the output directory: file name -> content
    result,      \* what the run returned: "None", "1" or the exception raised
    log,         \* the diagnostics printed, in order
    box,         \* the pixel box of the shape a format-B converter handled last
    via_dir,     \* the format-C directory: labelme2via writes it, via2labelme reads it
    yolo_dir,    \* the directory create_empty_txt_yolo works on
    runs         \* how many times create_empty_txt_yolo ran on yolo_dir

vars == <<cmd, corpus, images, label_list, outdir, result, log, box, via_dir,
          yolo_dir, runs>>

-----------------------------------------------------------------------------
(* Bounds of the model *)

\* files of one input corpus
MaxFiles == 2
\* shapes of one input corpus, all files together
MaxShapes == 3
\* points of one polygon
MaxPoints == 3
\* JSON documents of one format-C input directory
MaxJson == 2
\* runs of create_empty_txt_yolo on one directory
MaxRuns == 2

\* A value the code computes once and then reads several times is bound as
\* the member x of a one-element set {e}, and what is made of it is the one
\* member of {F(x) : x \in {e}}: e is evaluated once, as the assignment to a
\* local variable evaluates it.

-----------------------------------------------------------------------------
(* Python strings *)

\* the code point of a character, as far as the model's labels need it
Ord(c) ==
    CASE c = "D" -> 68
      [] c = "a" -> 97
      [] c = "c" -> 99
      [] c = "d" -> 100
      [] c = "g" -> 103
      [] c = "o" -> 111
      [] c = "t" -> 116
      [] OTHER -> 0

\* s < t for Python strings: lexicographic by code point, a proper prefix first
RECURSIVE StrLess(_, _)
StrLess(s, t) ==
    IF t = <<>> THEN FALSE
    ELSE IF s = <<>> THEN TRUE
    ELSE IF Ord(Head(s)) # Ord(Head(t)) THEN Ord(Head(s)) < Ord(Head(t))
    ELSE StrLess(Tail(s), Tail(t))

\* whether pre is a prefix of s
StartsWith(s, pre) ==
    /\ Len(pre) <= Len(s)
    /\ SubSeq(s, 1, Len(pre)) = pre

\* s.replace(old, new) from the i-th character on: every non-overlapping
\* occurrence, left to right
RECURSIVE ReplaceFrom(_, _, _, _)
ReplaceFrom(s, i, old, new) ==
    IF i > Len(s) THEN <<>>
    ELSE IF i + Len(old) - 1 <= Len(s) /\ SubSeq(s, i, i + Len(old) - 1) = old
         THEN new \o ReplaceFrom(s, i + Len(old), old, new)
         ELSE <<s[i]>> \o ReplaceFrom(s, i + 1, old, new)

\* an empty old matches before every character and at the end
RECURSIVE Interleave(_, _)
Interleave(s, new) ==
    IF s = <<>> THEN new ELSE new \o <<Head(s)>> \o Interleave(Tail(s), new)

Replace(s, old, new) ==
    CHOOSE out \in {IF old = <<>> THEN Interleave(str, new)
                    ELSE ReplaceFrom(str, 1, old, new) : str \in {s}} : TRUE

\* os.path.join(a, b) of two components
OsPathJoin(a, b) ==
    IF b # <<>> /\ Head(b) = "/" THEN b
    ELSE IF a = <<>> \/ a[Len(a)] = "/" THEN a \o b
    ELSE a \o <<"/">> \o b

\* s.split(sep)[-1] for a one-character sep: what follows the last sep
RECURSIVE SplitLast(_, _)
SplitLast(s, sep) ==
    IF \E i \in 1..Len(s) : s[i] = sep
    THEN SplitLast(Tail(s), sep)
    ELSE s

\* fnmatch of a glob pattern whose only wildcard is "*"
RECURSIVE Match(_, _)
Match(pat, name) ==
    IF pat = <<>> THEN name = <<>>
    ELSE IF Head(pat) = "*"
         THEN \/ Match(Tail(pat), name)
              \/ name # <<>> /\ Match(pat, Tail(name))
         ELSE /\ name # <<>>
              /\ Head(name) = Head(pat)
              /\ Match(Tail(pat), Tail(name))

\* the members of a sequence
Range(s) == {s[i] : i \in 1..Len(s)}

\* the sequences over S of length at most n
SeqsUpTo(S, n) == UNION {[1..k -> S] : k \in 0..n}

-----------------------------------------------------------------------------
(* Directories: sets of entries [name, c], one entry per file name *)

\* open(name, "w") ... write ... close, or shutil.copyfile onto name
WriteFile(dir, name, c) ==
    {e \in dir : e.name # name} \cup {[name |-> name, c |-> c]}

HasFile(dir, name) == \E e \in dir : e.name = name

ReadFile(dir, name) == (CHOOSE e \in dir : e.name = name).c

\* the names of a directory that match a glob pattern
GlobNames(dir, pat) == {e.name : e \in {x \in dir : Match(pat, x.name)}}

-----------------------------------------------------------------------------
(* Numbers: Python ints and floats as exact fractions n/d with d > 0 *)

RECURSIVE Gcd(_, _)
Gcd(a, b) == IF b = 0 THEN a ELSE Gcd(b, a % b)

Abs(x) == IF x < 0 THEN -x ELSE x

\* the fraction n/d in lowest terms (d # 0)
Q(n, d) ==
    LET g == Gcd(Abs(n), Abs(d))
        s == IF d < 0 THEN -1 ELSE 1
    IN  [n |-> s * (n \div g), d |-> s * (d \div g)]

QInt(k) == [n |-> k, d |-> 1]
QAdd(x, y) == Q(x.n * y.d + y.n * x.d, x.d * y.d)
QSub(x, y) == Q(x.n * y.d - y.n * x.d, x.d * y.d)
QDiv(x, y) == Q(x.n * y.d, x.d * y.n)
QAbs(x) == [n |-> Abs(x.n), d |-> x.d]
QLess(x, y) == x.n * y.d < y.n * x.d
QLeq(x, y) == x.n * y.d <= y.n * x.d

\* int(x): truncation toward zero
Trunc(x) == IF x.n >= 0 THEN x.n \div x.d ELSE -((-x.n) \div x.d)

-----------------------------------------------------------------------------
(* Names and paths *)

DotJson == <<".", "j", "s", "o", "n">>
DotTxt  == <<".", "t", "x", "t">>
DotJpg  == <<".", "j", "p", "g">>
StarDotJson == <<"*">> \o DotJson

\* the directory arguments of the command line, each ending with "/"
input_dir  == <<"i", "n", "/">>
output_dir == <<"o", "u", "t", "/">>
\* the directory of the format-C document
via_path   == <<"v", "i", "a", "/">>

DigitChar(i) ==
    CASE i = 0 -> "0" [] i = 1 -> "1" [] i = 2 -> "2" [] i = 3 -> "3"
      [] i = 4 -> "4" [] i = 5 -> "5" [] i = 6 -> "6" [] i = 7 -> "7"
      [] i = 8 -> "8" [] OTHER -> "9"

\* str(k) of a non-negative int
RECURSIVE IntStr(_)
IntStr(k) ==
    IF k < 10 THEN <<DigitChar(k)>>
    ELSE IntStr(k \div 10) \o <<DigitChar(k % 10)>>

\* the base name of the i-th annotated image: "f1", "f2", ...
StemOf(i) == <<"f">> \o IntStr(i)

\* the path of the i-th annotation file of the input directory
JsonPath(i) == input_dir \o StemOf(i) \o DotJson

-----------------------------------------------------------------------------
(* Format-A documents *)

Str_cat == <<"c", "a", "t">>
Str_ca  == <<"c", "a">>
Str_Dog == <<"D", "o", "g">>

\* an integer pixel point
Pt(x, y) == <<QInt(x), QInt(y)>>

\* a shape of a Labelme document: the keys the converters read
Shape(label, kind, points) ==
    [label |-> label, shape_type |-> kind, points |-> points]

\* a Labelme document: the keys the converters read; imagePath may be absent
Doc(path, w, h, shapes) ==
    [imagePath |-> path, imageWidth |-> w, imageHeight |-> h, shapes |-> shapes]

PathOf(name) == [present |-> TRUE, value |-> name]

\* the i-th file of a corpus holding the given shapes: its image is a .jpg of
\* the same base name
FileOf(i, shapes) ==
    [path |-> JsonPath(i),
     doc  |-> Doc(PathOf(StemOf(i) \o DotJpg), 100, 100, shapes)]

\* the corpus is one of at most MaxFiles files holding at most MaxShapes shapes
\* from pool between them: a list of shapes cut into the files
CorpusFrom(pool) ==
    \E k \in 0..MaxFiles :
        \E flat \in SeqsUpTo(pool, MaxShapes) :
            \E cut \in [0..k -> 0..Len(flat)] :
                /\ cut[0] = 0
                /\ cut[k] = Len(flat)
                /\ \A i \in 1..k : cut[i - 1] <= cut[i]
                /\ corpus = [i \in 1..k |->
                               FileOf(i, SubSeq(flat, cut[i - 1] + 1, cut[i]))]

\* glob.glob(dir + pattern) on the annotation files of a corpus
GlobJson(c) ==
    SelectSeq(c, LAMBDA f : Match(input_dir \o StarDotJson, f.path))

-----------------------------------------------------------------------------
(* extract_labelme_labels *)

\* list.sort(): insertion of x into a sorted list
RECURSIVE SortedInsert(_, _)
SortedInsert(x, s) ==
    IF s = <<>> THEN <<x>>
    ELSE IF StrLess(x, Head(s)) THEN <<x>> \o s
    ELSE <<Head(s)>> \o SortedInsert(x, Tail(s))

\* a sort that leaves the list in the order of first appearance
SortUnsortedMutant(s) == s

RECURSIVE Sort(_)
Sort(s) == IF s = <<>> THEN <<>> ELSE SortedInsert(Head(s), Sort(Tail(s)))

\* the inner loop: append each label of the shapes not yet in the list
RECURSIVE AppendLabels(_, _)
AppendLabels(labels, shapes) ==
    IF shapes = <<>> THEN labels
    ELSE AppendLabels(
           IF Head(shapes).label \in Range(labels) THEN labels
           ELSE Append(labels, Head(shapes).label),
           Tail(shapes))

\* the outer loop over the files
RECURSIVE CollectLabels(_, _)
CollectLabels(labels, files) ==
    IF files = <<>> THEN labels
    ELSE CollectLabels(AppendLabels(labels, Head(files).doc.shapes), Tail(files))

\* the table returned: [labels sorted, ids 0..N-1]
extract_labelme_labels(c) ==
    LET sorted == Sort(CollectLabels(<<>>, GlobJson(c)))
    IN  <<sorted, [i \in 1..Len(sorted) |-> i - 1]>>

-----------------------------------------------------------------------------
(* Output text: repr of numbers and str of a list *)

\* the fractional digits of r/d (0 <= r < d) as repr prints them: as many as
\* the value has, 17 significant digits at most
RECURSIVE FracDigits(_, _, _)
FracDigits(r, d, k) ==
    IF r = 0 \/ k = 0 THEN <<>>
    ELSE <<DigitChar((r * 10) \div d)>> \o FracDigits((r * 10) % d, d, k - 1)

\* repr(x) of a float: "0.3", "25.0", "-1.5", and "inf", "-inf", "nan" for the
\* quotients numpy returns on a division by zero
FloatRepr(x) ==
    IF x.d = 0
    THEN IF x.n > 0 THEN <<"i", "n", "f">>
         ELSE IF x.n < 0 THEN <<"-", "i", "n", "f">>
         ELSE <<"n", "a", "n">>
    ELSE LET a == Abs(x.n)
             frac == FracDigits(a % x.d, x.d, 17)
         IN  (IF x.n < 0 THEN <<"-">> ELSE <<>>)
             \o IntStr(a \div x.d) \o <<".">>
             \o (IF frac = <<>> THEN <<"0">> ELSE frac)

\* ", ".join(tokens)
RECURSIVE JoinComma(_)
JoinComma(tokens) ==
    IF tokens = <<>> THEN <<>>
    ELSE IF Len(tokens) = 1 THEN tokens[1]
    ELSE tokens[1] \o <<",", " ">> \o JoinComma(Tail(tokens))

\* str(list) of a list whose elements print as tokens
ListStr(tokens) == <<"[">> \o JoinComma(tokens) \o <<"]">>

\* the line written: str([id] + box) without its commas and brackets
BoxLine(tokens) ==
    Replace(Replace(Replace(ListStr(tokens), <<",">>, <<>>), <<"[">>, <<>>),
            <<"]">>, <<>>)

\* a text file of the given lines, each written with its newline
Text(lines) == [k |-> "text", lines |-> lines]

-----------------------------------------------------------------------------
(* The format-A to format-B converters *)

\* a float divided by a Python int image dimension, as numpy divides: a
\* division by zero warns and yields inf or nan
NpDiv(x, k) ==
    IF k = 0
    THEN [n |-> IF x.n > 0 THEN 1 ELSE IF x.n < 0 THEN -1 ELSE 0, d |-> 0]
    ELSE QDiv(x, QInt(k))

\* image_format: "." and what follows the last "." of imagePath, ".jpg" when
\* reading it raises
ImageFormat(doc) ==
    IF doc.imagePath.present
    THEN <<".">> \o SplitLast(doc.imagePath.value, ".")
    ELSE DotJpg

\* list.index(x): the 0-based position of the first x, -1 for ValueError
IndexOf(list, x) ==
    IF x \in Range(list)
    THEN (CHOOSE i \in 1..Len(list) :
            list[i] = x /\ \A j \in 1..(i - 1) : list[j] # x) - 1
    ELSE -1

\* max and min of a column, as Python's max() and min() walk it
RECURSIVE MaxOf(_)
MaxOf(col) ==
    IF Len(col) = 1 THEN col[1]
    ELSE LET m == MaxOf(Tail(col))
         IN  IF QLess(m, Head(col)) THEN Head(col) ELSE m

RECURSIVE MinOf(_)
MinOf(col) ==
    IF Len(col) = 1 THEN col[1]
    ELSE LET m == MinOf(Tail(col))
         IN  IF QLess(Head(col), m) THEN Head(col) ELSE m

Column(points, a) == [i \in 1..Len(points) |-> points[i][a]]

\* labelmerect2yolo: the box of a rectangle, in pixels, before normalization
RectBox(points) ==
    LET box_width  == QSub(points[2][1], points[1][1])
        box_height == QSub(points[1][2], points[2][2])
    IN  [box_width    |-> box_width,
         box_height   |-> box_height,
         box_center_x |-> QAdd(points[1][1], QDiv(box_width, QInt(2))),
         box_center_y |-> QAdd(points[2][2], QDiv(box_height, QInt(2)))]

\* a normalized box whose width and height keep their sign
RectYoloMutantNoAbs(points, img_dims) ==
    LET b == RectBox(points)
    IN  <<NpDiv(b.box_center_x, img_dims[1]),
          NpDiv(b.box_center_y, img_dims[2]),
          NpDiv(b.box_width, img_dims[1]),
          NpDiv(b.box_height, img_dims[2])>>

\* labelmerect2yolo: the normalized box
RectYolo(points, img_dims) ==
    LET b == RectBox(points)
    IN  <<NpDiv(b.box_center_x, img_dims[1]),
          NpDiv(b.box_center_y, img_dims[2]),
          QAbs(NpDiv(b.box_width, img_dims[1])),
          QAbs(NpDiv(b.box_height, img_dims[2]))>>

\* a box centred on the far corner instead of the middle
PolyBoxMutantNoHalf(points) ==
    LET xs == Column(points, 1)
        ys == Column(points, 2)
    IN  [box_width    |-> QSub(MaxOf(xs), MinOf(xs)),
         box_height   |-> QSub(MaxOf(ys), MinOf(ys)),
         box_center_x |-> QAdd(MinOf(xs), QSub(MaxOf(xs), MinOf(xs))),
         box_center_y |-> QAdd(MinOf(ys), QSub(MaxOf(ys), MinOf(ys)))]

\* labelmepoly2yolo: the box of a polygon, in pixels, before normalization
PolyBox(points) ==
    LET xs == Column(points, 1)
        ys == Column(points, 2)
        box_width  == QSub(MaxOf(xs), MinOf(xs))
        box_height == QSub(MaxOf(ys), MinOf(ys))
    IN  [box_width    |-> box_width,
         box_height   |-> box_height,
         box_center_x |-> QAdd(MinOf(xs), QDiv(box_width, QInt(2))),
         box_center_y |-> QAdd(MinOf(ys), QDiv(box_height, QInt(2)))]

\* labelmepoly2yolo: the normalized box
PolyYolo(points, img_dims) ==
    LET b == PolyBox(points)
    IN  <<NpDiv(b.box_center_x, img_dims[1]),
          NpDiv(b.box_center_y, img_dims[2]),
          NpDiv(b.box_width, img_dims[1]),
          NpDiv(b.box_height, img_dims[2])>>

\* labelmepoly2yolov4c: the contour handed to cv2, each coordinate cast to int32
Contour(points) == [i \in 1..Len(points) |-> <<Trunc(points[i][1]), Trunc(points[i][2])>>]

\* labelmepoly2yolov4c: the four numbers of the line. cv2.minEnclosingCircle is
\* a library call: its centre and radius are left uninterpreted, each number
\* is a token naming the quantity, the contour and the image dimension
CircleTokens(points, img_dims) ==
    LET c == ToString(Contour(points))
    IN  << <<"cx" \o c \o "/" \o ToString(img_dims[1])>>,
           <<"cy" \o c \o "/" \o ToString(img_dims[2])>>,
           <<"2r" \o c \o "/" \o ToString(img_dims[1])>>,
           <<"2r" \o c \o "/" \o ToString(img_dims[2])>> >>

\* no shape handled yet
NoBox == [none |-> TRUE]

\* the shape kind a converter turns into lines
TargetKind(variant) ==
    IF variant = "labelmerect2yolo" THEN "rectangle" ELSE "polygon"

\* its warning on any other kind
SkipWarning(variant) ==
    IF variant = "labelmerect2yolo"
    THEN "Warning! The annotations contain shapes other than rectangles"
    ELSE "Warning! The annotations contain shapes other than polygons"

\* the line of one matching shape, or the exception its conversion raises:
\* the label is looked up first, then the points are indexed
ShapeLine(variant, shape, img_dims, labels) ==
    LET pts == shape.points
        Line(id, normalized) ==
            CHOOSE box_yolo_out \in
                {BoxLine(<<IntStr(id), FloatRepr(box_yolo[1]), FloatRepr(box_yolo[2]),
                           FloatRepr(box_yolo[3]), FloatRepr(box_yolo[4])>>)
                 : box_yolo \in {normalized}} : TRUE
        Raise(e) == [exc |-> e, line |-> <<>>, box |-> NoBox]
        Converted(id) ==
        IF id = -1 THEN Raise("ValueError")
        ELSE IF variant = "labelmerect2yolo"
        THEN IF Len(pts) < 2 THEN Raise("IndexError")
             ELSE [exc |-> "None", line |-> Line(id, RectYolo(pts, img_dims)),
                   box |-> RectBox(pts)]
        ELSE IF variant = "labelmepoly2yolo"
        THEN IF Len(pts) = 0 THEN Raise("IndexError")
             ELSE [exc |-> "None", line |-> Line(id, PolyYolo(pts, img_dims)),
                   box |-> PolyBox(pts)]
        ELSE IF Len(pts) = 0 THEN Raise("cv2.error")
             ELSE [exc |-> "None",
                   line |-> BoxLine(<<IntStr(id)>> \o CircleTokens(pts, img_dims)),
                   box |-> [circle |-> Contour(pts)]]
    IN  CHOOSE res \in {Converted(shape_label_id)
                        : shape_label_id \in {IndexOf(labels[1], shape.label)}} : TRUE

\* a loop that stops at the first shape of another kind
RECURSIVE YoloShapesMutantBreak(_, _, _, _, _)
YoloShapesMutantBreak(variant, shapes, img_dims, labels, acc) ==
    IF shapes = <<>> THEN acc
    ELSE IF Head(shapes).shape_type # TargetKind(variant)
    THEN [acc EXCEPT !.log = Append(@, SkipWarning(variant))]
    ELSE CHOOSE res \in
             {IF r.exc # "None" THEN [acc EXCEPT !.exc = r.exc]
              ELSE YoloShapesMutantBreak(variant, Tail(shapes), img_dims, labels,
                                         [acc EXCEPT !.lines = Append(@, r.line),
                                          !.box = r.box])
              : r \in {ShapeLine(variant, Head(shapes), img_dims, labels)}} : TRUE

\* the loop over the shapes of one file: a shape of another kind is skipped
\* with a warning, a matching shape appends its line
RECURSIVE YoloShapes(_, _, _, _, _)
YoloShapes(variant, shapes, img_dims, labels, acc) ==
    IF shapes = <<>> THEN acc
    ELSE IF Head(shapes).shape_type # TargetKind(variant)
    THEN YoloShapes(variant, Tail(shapes), img_dims, labels,
                    [acc EXCEPT !.log = Append(@, SkipWarning(variant))])
    ELSE CHOOSE res \in
             {IF r.exc # "None" THEN [acc EXCEPT !.exc = r.exc]
              ELSE YoloShapes(variant, Tail(shapes), img_dims, labels,
                              [acc EXCEPT !.lines = Append(@, r.line),
                                          !.box = r.box])
              : r \in {ShapeLine(variant, Head(shapes), img_dims, labels)}} : TRUE

\* the input directory as the converters see it: the annotation files and the
\* images beside them
InDir(c, imgs) ==
    imgs \cup {[name |-> c[i].path, c |-> [k |-> "json", doc |-> c[i].doc]]
               : i \in 1..Len(c)}

\* the name of the text file of an annotation file
YoloOutfileName(poly_file) == Replace(SplitLast(poly_file, "/"), DotJson, DotTxt)

\* one pass of the loop over the files: the text file is created, filled and
\* closed, then the image is copied beside it
YoloFile(variant, f, st, dir, labels) ==
    LET doc == f.doc
        image_format == ImageFormat(doc)
        log1 == IF doc.imagePath.present THEN st.log
                ELSE Append(st.log, "Warning! Format detection unsuccessful")
        img_dims == <<doc.imageWidth, doc.imageHeight>>
        yolo_outfile_name == YoloOutfileName(f.path)
        src == Replace(f.path, DotJson, image_format)
        dst == output_dir \o Replace(yolo_outfile_name, DotTxt, image_format)
        \* the text file closed: the state when the shape loop has ended as r
        Closed(r) ==
            [out |-> WriteFile(st.out, output_dir \o yolo_outfile_name,
                               Text(r.lines)),
             log |-> r.log, exc |-> r.exc, box |-> r.box]
        Copied(st1) ==
            IF st1.exc # "None" THEN st1
            ELSE IF ~HasFile(dir, src)
            THEN [st1 EXCEPT !.exc = "FileNotFoundError"]
            ELSE [st1 EXCEPT !.out = WriteFile(@, dst, ReadFile(dir, src))]
    IN  CHOOSE res \in
            {Copied(st1) : st1 \in
                {Closed(r) : r \in
                    {YoloShapes(variant, doc.shapes, img_dims, labels,
                                [lines |-> <<>>, log |-> log1, exc |-> "None",
                                 box |-> st.box])}}} : TRUE

\* the loop over the files: an exception ends the run
RECURSIVE YoloFiles(_, _, _, _, _)
YoloFiles(variant, files, st, dir, labels) ==
    IF files = <<>> \/ st.exc # "None" THEN st
    ELSE CHOOSE res \in
             {YoloFiles(variant, Tail(files), st1, dir, labels)
              : st1 \in {YoloFile(variant, Head(files), st, dir, labels)}} : TRUE

\* classes.txt: one line "id label" per entry of the table
ClassesTxt(labels) ==
    Text([i \in 1..Len(labels[2]) |->
            IntStr(labels[2][i]) \o <<" ">> \o labels[1][i]])

ClassesName == <<"c", "l", "a", "s", "s", "e", "s">> \o DotTxt

\* a format-A to format-B converter on an input directory and a fresh output
\* directory: what it leaves, prints and returns
YoloRun(variant, c, imgs, label_table) ==
    LET Files(dir, labels) ==
            YoloFiles(variant, GlobJson(c),
                      [out |-> {}, log |-> <<>>, exc |-> "None", box |-> NoBox],
                      dir, labels)
        Classes(st, labels) ==
            IF st.exc # "None" THEN st
            ELSE [st EXCEPT !.out = WriteFile(@, output_dir \o ClassesName,
                                              ClassesTxt(labels))]
    IN  CHOOSE res \in
            {Classes(p[1], p[2]) : p \in
                {<<Files(dir, labels), labels>>
                 : dir \in {InDir(c, imgs)}, labels \in {label_table}}} : TRUE

labelmerect2yolo(c, imgs, labels) == YoloRun("labelmerect2yolo", c, imgs, labels)

labelmepoly2yolo(c, imgs, labels) == YoloRun("labelmepoly2yolo", c, imgs, labels)

labelmepoly2yolov4c(c, imgs, labels) ==
    YoloRun("labelmepoly2yolov4c", c, imgs, labels)

-----------------------------------------------------------------------------
(* labelme2via *)

\* a JSON document on disk
Json(doc) == [k |-> "json", doc |-> doc]

ViaAnnotationsName == <<"v", "i", "a", "_", "a", "n", "n", "o", "t", "a", "t",
                        "i", "o", "n", "s">> \o DotJson

\* a region of a format-C record
Region(label, kind, xs, ys) ==
    [region_attributes |-> [label |-> label],
     shape_attributes |-> [name |-> kind, all_points_x |-> xs, all_points_y |-> ys]]

\* a format-C record
Ann(filename, regions, size) ==
    [file_attributes |-> <<>>, filename |-> filename, regions |-> regions,
     size |-> size]

\* d[key] = value on a dict kept as its items in insertion order
DictSet(d, key, value) ==
    IF \E i \in 1..Len(d) : d[i].key = key
    THEN [i \in 1..Len(d) |->
            IF d[i].key = key THEN [key |-> key, value |-> value] ELSE d[i]]
    ELSE Append(d, [key |-> key, value |-> value])

\* a cast that rounds down
PyIntMutantFloor(x) == QInt(x.n \div x.d)

\* int(x) as a Python int
PyInt(x) == QInt(Trunc(x))

\* a loop that skips a shape of another kind, as the format-B converters do
RECURSIVE ViaRegionsMutantSkip(_, _)
ViaRegionsMutantSkip(shapes, regions) ==
    IF shapes = <<>> THEN [failed |-> FALSE, regions |-> regions]
    ELSE IF Head(shapes).shape_type # "polygon"
    THEN ViaRegionsMutantSkip(Tail(shapes), regions)
    ELSE ViaRegionsMutantSkip(Tail(shapes),
             Append(regions,
                    Region(Head(shapes).label, "polygon",
                           [i \in 1..Len(Head(shapes).points) |->
                              PyInt(Head(shapes).points[i][1])],
                           [i \in 1..Len(Head(shapes).points) |->
                              PyInt(Head(shapes).points[i][2])])))

\* the loop over the shapes of one file: one region per polygon, with its
\* coordinates cast to int; any other kind ends the conversion
RECURSIVE ViaRegions(_, _)
ViaRegions(shapes, regions) ==
    IF shapes = <<>> THEN [failed |-> FALSE, regions |-> regions]
    ELSE IF Head(shapes).shape_type # "polygon"
    THEN [failed |-> TRUE, regions |-> regions]
    ELSE ViaRegions(Tail(shapes),
             Append(regions,
                    Region(Head(shapes).label, "polygon",
                           [i \in 1..Len(Head(shapes).points) |->
                              PyInt(Head(shapes).points[i][1])],
                           [i \in 1..Len(Head(shapes).points) |->
                              PyInt(Head(shapes).points[i][2])])))

ViaKindError ==
    "Error: shapes other than polygons not yet supported. Please modify labelme2via()"

\* one pass of the loop over the files. st.exc is "None" while the run goes
\* on, "1" once it has returned 1, or the exception raised
ViaFile(f, st, dir, in_dir, out_dir) ==
    LET doc == f.doc
        image_format == ImageFormat(doc)
        log1 == IF doc.imagePath.present THEN st.log
                ELSE Append(st.log, "Warning! Format detection unsuccessful")
        stat_path == Replace(f.path, DotJson, image_format)
        r == ViaRegions(doc.shapes, <<>>)
        image_name == Replace(SplitLast(f.path, "/"), DotJson, image_format)
        img_size == ReadFile(dir, stat_path).size
        src == OsPathJoin(in_dir, image_name)
        dst == OsPathJoin(out_dir, image_name)
    IN  IF ~HasFile(dir, stat_path)
        THEN [st EXCEPT !.log = log1, !.exc = "FileNotFoundError"]
        ELSE IF r.failed
        THEN [st EXCEPT !.log = Append(log1, ViaKindError), !.exc = "1"]
        ELSE IF ~HasFile(dir, src)
        THEN [st EXCEPT !.log = log1, !.exc = "FileNotFoundError",
                        !.annotations = DictSet(@, image_name \o IntStr(img_size),
                                                Ann(image_name, r.regions, img_size))]
        ELSE [st EXCEPT !.log = log1,
                        !.annotations = DictSet(@, image_name \o IntStr(img_size),
                                                Ann(image_name, r.regions, img_size)),
                        !.out = WriteFile(@, dst, ReadFile(dir, src))]

RECURSIVE ViaFiles(_, _, _, _, _)
ViaFiles(files, st, dir, in_dir, out_dir) ==
    IF files = <<>> \/ st.exc # "None" THEN st
    ELSE ViaFiles(Tail(files), ViaFile(Head(files), st, dir, in_dir, out_dir),
                  dir, in_dir, out_dir)

\* labelme2via on an input directory and a fresh output directory: the single
\* document is written after the loop, when the loop has ended normally
labelme2via(c, imgs, in_dir, out_dir) ==
    LET st == ViaFiles(GlobJson(c),
                       [out |-> {}, log |-> <<>>, exc |-> "None",
                        annotations |-> <<>>],
                       InDir(c, imgs), in_dir, out_dir)
    IN  IF st.exc # "None" THEN st
        ELSE [st EXCEPT !.out = WriteFile(@, OsPathJoin(out_dir, ViaAnnotationsName),
                                          Json(st.annotations))]

-----------------------------------------------------------------------------
(* via2labelme *)

StrJson == <<"j", "s", "o", "n">>

ViaNoFileError ==
    "Error. No annotation file found. Check that .json annotations are in the input directory"
ViaManyFilesError ==
    "Error. There are more than one .json files in the input directory. Check VIA annotations"
LabelmeKindError ==
    "Error: shapes other than polygons not yet supported. Please modify via2labelme()"
PointsMismatchError == "Error: annotation points mismatch"

\* a shape of the Labelme document via2labelme writes
OutShape(label, kind, points) ==
    [label |-> label, shape_type |-> kind, points |-> points,
     line_color |-> "None", fill_color |-> "None", group_id |-> "None",
     flags |-> <<>>]

\* a loop that pairs the coordinates without comparing the two lengths
RECURSIVE LabelmeShapesMutantNoLenCheck(_, _)
LabelmeShapesMutantNoLenCheck(regions, shapes) ==
    IF regions = <<>> THEN [error |-> "None", shapes |-> shapes]
    ELSE LET sa == Head(regions).shape_attributes
             n == IF Len(sa.all_points_x) < Len(sa.all_points_y)
                  THEN Len(sa.all_points_x) ELSE Len(sa.all_points_y)
         IN  IF sa.name # "polygon"
             THEN [error |-> LabelmeKindError, shapes |-> shapes]
             ELSE LabelmeShapesMutantNoLenCheck(Tail(regions),
                      Append(shapes,
                             OutShape(Head(regions).region_attributes.label, sa.name,
                                      [i \in 1..n |->
                                         <<PyInt(sa.all_points_x[i]),
                                           PyInt(sa.all_points_y[i])>>])))

\* the loop over the regions of one record: a region that is no polygon, or
\* whose coordinate lists differ in length, ends the run with its message
RECURSIVE LabelmeShapes(_, _)
LabelmeShapes(regions, shapes) ==
    IF regions = <<>> THEN [error |-> "None", shapes |-> shapes]
    ELSE LET sa == Head(regions).shape_attributes
         IN  IF sa.name # "polygon"
             THEN [error |-> LabelmeKindError, shapes |-> shapes]
             ELSE IF Len(sa.all_points_x) # Len(sa.all_points_y)
             THEN [error |-> PointsMismatchError, shapes |-> shapes]
             ELSE LabelmeShapes(Tail(regions),
                      Append(shapes,
                             OutShape(Head(regions).region_attributes.label, sa.name,
                                      [i \in 1..Len(sa.all_points_x) |->
                                         <<PyInt(sa.all_points_x[i]),
                                           PyInt(sa.all_points_y[i])>>])))

\* the name of the annotation file of a record: every occurrence of the
\* image's extension text replaced by "json"
LmeAnnName(file_name) == Replace(file_name, SplitLast(file_name, "."), StrJson)

\* the document written for a record; the two colours are random draws the
\* model leaves uninterpreted
LabelmeAnn(file_name, image, shapes) ==
    [version |-> "4.5.6", flags |-> <<>>,
     fillColor |-> "np.random.randint(255, size=3)",
     lineColor |-> "np.random.randint(255, size=3)",
     imageData |-> "None",
     imageHeight |-> image.height, imageWidth |-> image.width,
     imagePath |-> PathOf(file_name), shapes |-> shapes]

\* one pass of the loop over the records: the image is read, the shapes are
\* built, then the document is written and the image copied
LabelmeRecord(via_annotation, st, dir, in_dir, out_dir) ==
    LET file_name == via_annotation.filename
        img_path == OsPathJoin(in_dir, file_name)
        readable == HasFile(dir, img_path) /\ ReadFile(dir, img_path).k = "image"
        r == LabelmeShapes(via_annotation.regions, <<>>)
        lme_ann_name == LmeAnnName(file_name)
        out1 == WriteFile(st.out, OsPathJoin(out_dir, lme_ann_name),
                          Json(LabelmeAnn(file_name, ReadFile(dir, img_path), r.shapes)))
    IN  IF ~readable THEN [st EXCEPT !.exc = "AttributeError"]
        ELSE IF r.error # "None"
        THEN [st EXCEPT !.log = Append(@, r.error), !.exc = "1"]
        ELSE [st EXCEPT !.out = WriteFile(out1, OsPathJoin(out_dir, file_name),
                                          ReadFile(dir, img_path))]

RECURSIVE LabelmeRecords(_, _, _, _, _)
LabelmeRecords(records, st, dir, in_dir, out_dir) ==
    IF records = <<>> \/ st.exc # "None" THEN st
    ELSE LabelmeRecords(Tail(records),
                        LabelmeRecord(Head(records).value, st, dir, in_dir, out_dir),
                        dir, in_dir, out_dir)

\* a run that takes the first document when the directory holds several
Via2LabelmeMutantTakeFirst(dir, in_dir, out_dir) ==
    LET poly_file == GlobNames(dir, in_dir \o StarDotJson)
        st0 == [out |-> {}, log |-> <<>>, exc |-> "None"]
    IN  IF poly_file = {}
        THEN [st0 EXCEPT !.log = <<ViaNoFileError>>, !.exc = "1"]
        ELSE LabelmeRecords(ReadFile(dir, CHOOSE n \in poly_file : TRUE).doc, st0,
                            dir, in_dir, out_dir)

\* via2labelme on a format-C directory and a fresh output directory
via2labelme(dir, in_dir, out_dir) ==
    LET poly_file == GlobNames(dir, in_dir \o StarDotJson)
        st0 == [out |-> {}, log |-> <<>>, exc |-> "None"]
    IN  IF poly_file = {}
        THEN [st0 EXCEPT !.log = <<ViaNoFileError>>, !.exc = "1"]
        ELSE IF Cardinality(poly_file) > 1
        THEN [st0 EXCEPT !.log = <<ViaManyFilesError>>, !.exc = "1"]
        ELSE LabelmeRecords(ReadFile(dir, CHOOSE n \in poly_file : TRUE).doc, st0,
                            dir, in_dir, out_dir)

-----------------------------------------------------------------------------
(* create_empty_txt_yolo *)

\* the module binds the name glob to the glob module ("import glob"): the
\* name can be called only where the code writes glob.glob
GlobIsCallable == FALSE

\* the loop over the images: an empty text file for each name not in txt_list
RECURSIVE CreateTxt(_, _)
CreateTxt(dir, txt_files) ==
    IF txt_files = {} THEN dir
    ELSE LET t == CHOOSE x \in txt_files : TRUE
         IN  CreateTxt(WriteFile(dir, t, Text(<<>>)), txt_files \ {t})

\* a version that lists the images with glob.glob and a wildcard, and returns
\* after the first text file it creates
CreateEmptyMutantOnePerRun(dir, in_dir, image_format) ==
    LET img_list == GlobNames(dir, in_dir \o <<"*">> \o image_format)
        txt_list == GlobNames(dir, in_dir \o <<"*">> \o DotTxt)
        missing == {Replace(img, image_format, DotTxt) : img \in img_list} \ txt_list
    IN  [out |-> IF missing = {} THEN dir
                 ELSE CreateTxt(dir, {CHOOSE t \in missing :
                                        \A u \in missing : Len(t) <= Len(u)}),
         exc |-> "None"]

\* create_empty_txt_yolo on a directory: its first statement calls glob, the
\* module, which raises TypeError before any file is listed or created
create_empty_txt_yolo(dir, in_dir, image_format) ==
    IF ~GlobIsCallable THEN [out |-> dir, exc |-> "TypeError"]
    ELSE LET img_list == GlobNames(dir, in_dir \o image_format)
             txt_list == GlobNames(dir, in_dir \o <<"*">> \o DotTxt)
         IN  [out |-> CreateTxt(dir, {Replace(img, image_format, DotTxt)
                                      : img \in img_list} \ txt_list),
              exc |-> "None"]

-----------------------------------------------------------------------------
(* The state before a command runs *)

\* an image file: its byte size and its pixel dimensions
Image(size, w, h) == [k |-> "image", size |-> size, width |-> w, height |-> h]

\* the images of a corpus: one .jpg beside each annotation file
ImagesFor(c) ==
    {[name |-> input_dir \o StemOf(i) \o DotJpg,
      c |-> Image(7 * i, c[i].doc.imageWidth, c[i].doc.imageHeight)]
     : i \in 1..Len(c)}

NoTable == <<<<>>, <<>>>>

\* the command line's check of the input directory, before any command runs
NoJsonWarning(in_dir) ==
    <<"Warning: no .json files found in the input directory: ", in_dir>>

CheckInputDir(json_names, in_dir) ==
    IF json_names = {} THEN <<NoJsonWarning(in_dir)>> ELSE <<>>

Fresh ==
    /\ cmd = "none"
    /\ outdir = {}
    /\ result = "None"
    /\ log = <<>>
    /\ box = NoBox
    /\ runs = 0

-----------------------------------------------------------------------------
(* SpecLabels: extract_labelme_labels on every small corpus *)

\* shapes of every kind; two labels share a prefix, one starts in upper case
LabelShapes ==
    {Shape(Str_cat, "polygon", <<Pt(1, 1), Pt(3, 1), Pt(2, 4)>>),
     Shape(Str_Dog, "rectangle", <<Pt(1, 1), Pt(3, 4)>>),
     Shape(Str_ca, "circle", <<Pt(2, 2), Pt(3, 2)>>),
     Shape(Str_cat, "rectangle", <<Pt(0, 0), Pt(2, 2)>>)}

InitLabels ==
    /\ Fresh
    /\ CorpusFrom(LabelShapes)
    /\ images = ImagesFor(corpus)
    /\ label_list = NoTable
    /\ via_dir = {}
    /\ yolo_dir = {}

ExtractLabels ==
    /\ cmd = "none"
    /\ cmd' = "extract_labelme_labels"
    /\ label_list' = extract_labelme_labels(corpus)
    /\ UNCHANGED <<corpus, images, outdir, result, log, box, via_dir, yolo_dir,
                   runs>>

NextLabels == ExtractLabels

SpecLabels == InitLabels /\ [][NextLabels]_vars

\* the corpus with its files i and i+1 listed in the other order
SwapFiles(c, i) ==
    [k \in 1..Len(c) |-> IF k = i THEN c[i + 1] ELSE IF k = i + 1 THEN c[i] ELSE c[k]]

\* the corpus with the shapes j and j+1 of file i in the other order
SwapShapes(c, i, j) ==
    LET sh == c[i].doc.shapes
        sw == [k \in 1..Len(sh) |->
                 IF k = j THEN sh[j + 1] ELSE IF k = j + 1 THEN sh[j] ELSE sh[k]]
    IN  [c EXCEPT ![i].doc.shapes = sw]

\* the labels of all shapes of all files
AllLabels(c) ==
    UNION {{sh.label : sh \in Range(c[i].doc.shapes)} : i \in 1..Len(c)}

\* C1: the table extract_labelme_labels returns holds exactly the distinct
\* labels of all shapes, of any kind, in strictly ascending order, paired by
\* position with the ids 0..N-1; and listing two neighbouring files, or two
\* neighbouring shapes of a file, in the other order yields the same table
\* (neighbour swaps generate every permutation, and every corpus is checked).
C1_LabelTable ==
    cmd = "extract_labelme_labels" =>
        LET L == label_list[1]
            ids == label_list[2]
        IN  /\ Range(L) = AllLabels(corpus)
            /\ \A i \in 1..Len(L) : \A j \in 1..Len(L) : i < j => StrLess(L[i], L[j])
            /\ DOMAIN ids = 1..Len(L)
            /\ \A i \in 1..Len(L) : ids[i] = i - 1
            /\ \A i \in 1..(Len(corpus) - 1) :
                   extract_labelme_labels(SwapFiles(corpus, i)) = label_list
            /\ \A i \in 1..Len(corpus) :
                   \A j \in 1..(Len(corpus[i].doc.shapes) - 1) :
                       extract_labelme_labels(SwapShapes(corpus, i, j)) = label_list

\* a table of three labels from two files whose shapes are of three kinds and
\* whose labels appear in descending order
C1_Witness ==
    /\ cmd = "extract_labelme_labels"
    /\ Len(corpus) = 2
    /\ Len(label_list[1]) = 3
    /\ Len(corpus[1].doc.shapes) = 2
    /\ corpus[1].doc.shapes[1].label = Str_cat
    /\ corpus[1].doc.shapes[1].shape_type = "polygon"
    /\ corpus[1].doc.shapes[2].label = Str_ca
    /\ corpus[2].doc.shapes = <<Shape(Str_Dog, "rectangle", <<Pt(1, 1), Pt(3, 4)>>)>>

-----------------------------------------------------------------------------
(* SpecYolo: the three format-B commands of the command line, each on every *)
(* small corpus of rectangles and polygons                                  *)

YoloShapePool ==
    {Shape(Str_cat, "rectangle", <<Pt(10, 10), Pt(50, 40)>>),
     Shape(Str_Dog, "polygon", <<Pt(10, 20), Pt(30, 20), Pt(20, 60)>>),
     Shape(Str_cat, "polygon", <<Pt(5, 5), Pt(5, 5), Pt(5, 5)>>),
     Shape(Str_ca, "circle", <<Pt(20, 20), Pt(30, 20)>>)}

InitYolo ==
    /\ Fresh
    /\ CorpusFrom(YoloShapePool)
    /\ images = ImagesFor(corpus)
    /\ label_list = NoTable
    /\ via_dir = {}
    /\ yolo_dir = {}

\* a format-B command: the table is extracted from the input directory, then
\* the converter runs with it
YoloCommand(name, run) ==
    /\ cmd = "none"
    /\ cmd' = name
    /\ label_list' = extract_labelme_labels(corpus)
    /\ \E st \in {run} :
          /\ outdir' = st.out
          /\ log' = CheckInputDir(Range(GlobJson(corpus)), input_dir) \o st.log
          /\ result' = st.exc
          /\ box' = st.box
    /\ UNCHANGED <<corpus, images, via_dir, yolo_dir, runs>>

LabelmeRectToYolo ==
    YoloCommand("labelmerect_to_yolo",
                labelmerect2yolo(corpus, images, extract_labelme_labels(corpus)))

LabelmePolyToYolo ==
    YoloCommand("labelmepoly_to_yolo",
                labelmepoly2yolo(corpus, images, extract_labelme_labels(corpus)))

LabelmePolyToYolov4c ==
    YoloCommand("labelmepoly_to_yolov4c",
                labelmepoly2yolov4c(corpus, images, extract_labelme_labels(corpus)))

NextYolo ==
    \/ LabelmeRectToYolo
    \/ LabelmePolyToYolo
    \/ LabelmePolyToYolov4c

SpecYolo == InitYolo /\ [][NextYolo]_vars
\* the kind of shape each format-B command converts
CommandKind ==
    IF cmd = "labelmerect_to_yolo" THEN "rectangle" ELSE "polygon"

CommandVariant ==
    IF cmd = "labelmerect_to_yolo" THEN "labelmerect2yolo"
    ELSE IF cmd = "labelmepoly_to_yolo" THEN "labelmepoly2yolo"
    ELSE "labelmepoly2yolov4c"

\* the text file written for the i-th annotation file
TxtOf(i) == output_dir \o StemOf(i) \o DotTxt

\* the shapes of file i that the command converts, in input order
Matching(i) ==
    SelectSeq(corpus[i].doc.shapes, LAMBDA sh : sh.shape_type = CommandKind)

\* C5: after each format-A to format-B command the run has not aborted, and
\* every input file has its text file, which holds exactly the lines of the
\* shapes of the converter's kind, one per shape in input order; the other
\* shapes are skipped, and a file without a matching shape gets an empty file.
C5_SkipKeepsFile ==
    cmd \in {"labelmerect_to_yolo", "labelmepoly_to_yolo", "labelmepoly_to_yolov4c"} =>
        /\ result = "None"
        /\ \A i \in 1..Len(corpus) :
              /\ HasFile(outdir, TxtOf(i))
              /\ LET lines == ReadFile(outdir, TxtOf(i)).lines
                     m == Matching(i)
                     dims == <<corpus[i].doc.imageWidth, corpus[i].doc.imageHeight>>
                 IN  /\ Len(lines) = Len(m)
                     /\ \A j \in 1..Len(m) :
                           lines[j] = ShapeLine(CommandVariant, m[j], dims,
                                                label_list).line

\* a polygon run on a file of two different polygons around a rectangle, and
\* on a second file without any shape: two lines in order, and an empty file
C5_Witness ==
    /\ cmd = "labelmepoly_to_yolo"
    /\ Len(corpus) = 2
    /\ Len(corpus[1].doc.shapes) = 3
    /\ corpus[1].doc.shapes[1].shape_type = "polygon"
    /\ corpus[1].doc.shapes[2].shape_type = "rectangle"
    /\ corpus[1].doc.shapes[3].shape_type = "polygon"
    /\ corpus[1].doc.shapes[1].label # corpus[1].doc.shapes[3].label
    /\ Len(ReadFile(outdir, TxtOf(1)).lines) = 2
    /\ ReadFile(outdir, TxtOf(1)).lines[1] # ReadFile(outdir, TxtOf(1)).lines[2]
    /\ ReadFile(outdir, TxtOf(2)).lines = <<>>

-----------------------------------------------------------------------------
(* SpecPoly: labelmepoly_to_yolo on one polygon of every small point list   *)

\* pixel coordinates, whole and fractional
PolyCoords == {QInt(0), Q(3, 2), QInt(4)}

InitPoly ==
    /\ Fresh
    /\ \E k \in 1..MaxPoints :
          \E pts \in [1..k -> PolyCoords \X PolyCoords] :
              corpus = <<FileOf(1, <<Shape(Str_cat, "polygon", pts)>>)>>
    /\ images = ImagesFor(corpus)
    /\ label_list = NoTable
    /\ via_dir = {}
    /\ yolo_dir = {}

NextPoly == LabelmePolyToYolo

SpecPoly == InitPoly /\ [][NextPoly]_vars

\* the largest and the smallest of a non-empty set of numbers
Greatest(S) == CHOOSE m \in S : \A x \in S : QLeq(x, m)
Least(S) == CHOOSE m \in S : \A x \in S : QLeq(m, x)

\* C2: the pixel box labelmepoly2yolo computes for a polygon, degenerate or
\* not, has width max x - min x and height max y - min y, its centre is
\* min + (max - min)/2 on each axis, every point of the polygon lies between
\* its edges, each edge passes through a point (so no smaller axis-aligned
\* box holds them all), and the run raises nothing.
C2_PolygonBox ==
    cmd = "labelmepoly_to_yolo" =>
        LET pts == corpus[1].doc.shapes[1].points
            X == {p[1] : p \in Range(pts)}
            Y == {p[2] : p \in Range(pts)}
            half_w == QDiv(box.box_width, QInt(2))
            half_h == QDiv(box.box_height, QInt(2))
            left   == QSub(box.box_center_x, half_w)
            right  == QAdd(box.box_center_x, half_w)
            bottom == QSub(box.box_center_y, half_h)
            top    == QAdd(box.box_center_y, half_h)
        IN  /\ result = "None"
            /\ box.box_width = QSub(Greatest(X), Least(X))
            /\ box.box_height = QSub(Greatest(Y), Least(Y))
            /\ box.box_center_x = QAdd(Least(X), QDiv(QSub(Greatest(X), Least(X)), QInt(2)))
            /\ box.box_center_y = QAdd(Least(Y), QDiv(QSub(Greatest(Y), Least(Y)), QInt(2)))
            /\ \A p \in Range(pts) :
                  /\ QLeq(left, p[1]) /\ QLeq(p[1], right)
                  /\ QLeq(bottom, p[2]) /\ QLeq(p[2], top)
            /\ \E p \in Range(pts) : p[1] = left
            /\ \E p \in Range(pts) : p[1] = right
            /\ \E p \in Range(pts) : p[2] = bottom
            /\ \E p \in Range(pts) : p[2] = top

\* a polygon of three different collinear points: a box of height 0
C2_Witness ==
    /\ cmd = "labelmepoly_to_yolo"
    /\ result = "None"
    /\ Len(corpus[1].doc.shapes[1].points) = 3
    /\ Cardinality(Range(corpus[1].doc.shapes[1].points)) = 3
    /\ box.box_height = QInt(0)
    /\ box.box_width = QInt(4)
    /\ box.box_center_x = QInt(2)

-----------------------------------------------------------------------------
(* SpecRect: labelmerect_to_yolo on one rectangle of every corner pair      *)

RectXs == {QInt(10), QInt(50), Q(25, 2)}
RectYs == {QInt(10), QInt(40)}
RectWidths == {50, 100}
RectHeights == {100, 200}

\* a polygon whose label sorts before the others: with it in the file the
\* rectangle's label is not the first of the table
EarlierLabel == Shape(Str_ca, "polygon", <<Pt(1, 1), Pt(3, 1), Pt(2, 4)>>)

InitRect ==
    /\ Fresh
    /\ \E p0 \in RectXs \X RectYs, p1 \in RectXs \X RectYs :
          \E w \in RectWidths, h \in RectHeights :
              \E label \in {Str_cat, Str_Dog}, before \in {<<>>, <<EarlierLabel>>} :
                  corpus = <<[path |-> JsonPath(1),
                              doc |-> Doc(PathOf(StemOf(1) \o DotJpg), w, h,
                                          before \o <<Shape(label, "rectangle",
                                                            <<p0, p1>>)>>)]>>
    /\ images = ImagesFor(corpus)
    /\ label_list = NoTable
    /\ via_dir = {}
    /\ yolo_dir = {}

NextRect == LabelmeRectToYolo

SpecRect == InitRect /\ [][NextRect]_vars

\* tokens separated by single spaces
RECURSIVE Spaced(_)
Spaced(tokens) ==
    IF Len(tokens) = 1 THEN tokens[1]
    ELSE tokens[1] \o <<" ">> \o Spaced(Tail(tokens))

\* the rectangle of the corpus, the last shape of its only file
TheRect == corpus[1].doc.shapes[Len(corpus[1].doc.shapes)]

\* the line the claim states for it
ClaimedRectLine ==
    LET P0 == TheRect.points[1]
        P1 == TheRect.points[2]
        W == QInt(corpus[1].doc.imageWidth)
        H == QInt(corpus[1].doc.imageHeight)
        id == CHOOSE i \in 0..Len(label_list[1]) - 1 :
                  label_list[1][i + 1] = TheRect.label
        cx == QDiv(QAdd(P0[1], QDiv(QSub(P1[1], P0[1]), QInt(2))), W)
        cy == QDiv(QAdd(P1[2], QDiv(QSub(P0[2], P1[2]), QInt(2))), H)
        w == QDiv(QAbs(QSub(P1[1], P0[1])), W)
        h == QDiv(QAbs(QSub(P0[2], P1[2])), H)
    IN  Spaced(<<IntStr(id), FloatRepr(cx), FloatRepr(cy), FloatRepr(w),
                 FloatRepr(h)>>)

\* "0 0.3 0.25 0.4 0.3"
ScenarioLine ==
    <<"0", " ", "0", ".", "3", " ", "0", ".", "2", "5", " ", "0", ".", "4",
      " ", "0", ".", "3">>

IsScenario ==
    /\ Len(corpus[1].doc.shapes) = 1
    /\ TheRect.points = <<Pt(10, 10), Pt(50, 40)>>
    /\ corpus[1].doc.imageWidth = 100
    /\ corpus[1].doc.imageHeight = 100

\* C3: for a rectangle P0, P1 in an image of width W and height H,
\* labelmerect2yolo writes the one line "label_id cx cy w h" with
\* cx = (P0.x + (P1.x - P0.x)/2)/W, cy = (P1.y + (P0.y - P1.y)/2)/H,
\* w = |P1.x - P0.x|/W and h = |P0.y - P1.y|/H; corners (10,10), (50,40) in a
\* 100x100 image with label id 0 give "0 0.3 0.25 0.4 0.3".
C3_RectangleLine ==
    cmd = "labelmerect_to_yolo" =>
        /\ result = "None"
        /\ HasFile(outdir, TxtOf(1))
        /\ ReadFile(outdir, TxtOf(1)).lines = <<ClaimedRectLine>>
        /\ IsScenario => ReadFile(outdir, TxtOf(1)).lines = <<ScenarioLine>>

\* the scenario of the claim, converted
C3_Witness ==
    /\ cmd = "labelmerect_to_yolo"
    /\ IsScenario
    /\ ReadFile(outdir, TxtOf(1)).lines = <<ScenarioLine>>

-----------------------------------------------------------------------------
(* SpecRoundTrip: labelme_to_via on every small corpus, then via_to_labelme *)
(* on the directory it wrote                                                *)

\* two polygons with fractional and negative coordinates, and a rectangle
ViaShapePool ==
    {Shape(Str_cat, "polygon", <<<<Q(3, 2), Q(-3, 2)>>, <<Q(7, 4), QInt(2)>>,
                                 <<Q(-1, 4), Q(5, 2)>>>>),
     Shape(Str_Dog, "polygon", <<Pt(4, 0), Pt(0, 4), <<Q(19, 10), Q(1, 2)>>>>),
     Shape(Str_cat, "rectangle", <<Pt(1, 1), Pt(3, 4)>>)}

InitRoundTrip ==
    /\ Fresh
    /\ CorpusFrom(ViaShapePool)
    /\ images = ImagesFor(corpus)
    /\ label_list = NoTable
    /\ via_dir = {}
    /\ yolo_dir = {}

LabelmeToVia ==
    /\ cmd = "none"
    /\ cmd' = "labelme_to_via"
    /\ LET st == labelme2via(corpus, images, input_dir, via_path)
       IN  /\ via_dir' = st.out
           /\ log' = CheckInputDir(Range(GlobJson(corpus)), input_dir) \o st.log
           /\ result' = st.exc
    /\ UNCHANGED <<corpus, images, label_list, outdir, box, yolo_dir, runs>>

ViaToLabelme ==
    /\ cmd \in {"none", "labelme_to_via"}
    /\ cmd' = "via_to_labelme"
    /\ LET st == via2labelme(via_dir, via_path, output_dir)
       IN  /\ outdir' = st.out
           /\ log' = CheckInputDir(GlobNames(via_dir, via_path \o StarDotJson),
                                    via_path) \o st.log
           /\ result' = st.exc
    /\ UNCHANGED <<corpus, images, label_list, box, via_dir, yolo_dir, runs>>

NextRoundTrip ==
    \/ LabelmeToVia
    \/ ViaToLabelme

SpecRoundTrip == InitRoundTrip /\ [][NextRoundTrip]_vars

\* every shape of every file of the corpus is a polygon
AllPolygons ==
    \A i \in 1..Len(corpus) :
        \A sh \in Range(corpus[i].doc.shapes) : sh.shape_type = "polygon"

\* the single document labelme2via writes
ViaDocName == via_path \o ViaAnnotationsName

\* the image labelme2via copies for file i, the annotation file and the image
\* via2labelme writes for it
ViaImageOf(i) == via_path \o StemOf(i) \o DotJpg
BackJsonOf(i) == output_dir \o StemOf(i) \o DotJson
BackImageOf(i) == output_dir \o StemOf(i) \o DotJpg

\* the integer next to x on the side of zero
TowardZero(x) ==
    CHOOSE k \in -Abs(x.n)..Abs(x.n) :
        /\ Abs(k) * x.d <= Abs(x.n)
        /\ Abs(x.n) < (Abs(k) + 1) * x.d
        /\ (k < 0 => x.n < 0) /\ (k > 0 => x.n > 0)

\* C4: when labelme2via has converted a corpus of polygons and via2labelme
\* has converted its output back, every file has its annotation file again,
\* with as many shapes in the same order, each with the label it had and with
\* its points in the same order, each coordinate cut to the integer next to
\* it on the side of zero.
C4_RoundTrip ==
    (cmd = "via_to_labelme" /\ AllPolygons /\ HasFile(via_dir, ViaDocName)) =>
        /\ result = "None"
        /\ \A i \in 1..Len(corpus) :
              /\ HasFile(outdir, BackJsonOf(i))
              /\ LET was == corpus[i].doc.shapes
                     now == ReadFile(outdir, BackJsonOf(i)).doc.shapes
                 IN  /\ Len(now) = Len(was)
                     /\ \A j \in 1..Len(was) :
                           /\ now[j].label = was[j].label
                           /\ now[j].shape_type = "polygon"
                           /\ Len(now[j].points) = Len(was[j].points)
                           /\ \A k \in 1..Len(was[j].points) :
                                 now[j].points[k] =
                                     <<QInt(TowardZero(was[j].points[k][1])),
                                       QInt(TowardZero(was[j].points[k][2]))>>

\* a round trip of two files, the first with two different polygons, one of
\* them with the corner (3/2, -3/2) that comes back as (1, -1)
C4_Witness ==
    /\ cmd = "via_to_labelme"
    /\ result = "None"
    /\ Len(corpus) = 2
    /\ Len(corpus[1].doc.shapes) = 2
    /\ Len(corpus[2].doc.shapes) = 1
    /\ AllPolygons
    /\ corpus[1].doc.shapes[1].label = Str_cat
    /\ corpus[1].doc.shapes[2].label = Str_Dog
    /\ HasFile(outdir, BackJsonOf(1))
    /\ ReadFile(outdir, BackJsonOf(1)).doc.shapes[1].points[1] = Pt(1, -1)
    /\ HasFile(outdir, BackJsonOf(2))

\* the first file that holds a shape that is no polygon
FirstBadFile ==
    CHOOSE i \in 1..Len(corpus) :
        /\ \E sh \in Range(corpus[i].doc.shapes) : sh.shape_type # "polygon"
        /\ \A h \in 1..(i - 1) :
              \A sh \in Range(corpus[h].doc.shapes) : sh.shape_type = "polygon"

\* C6: when a shape of the corpus is no polygon, labelme2via returns 1 with
\* its error message, has handled only the files before the first such file
\* (the output directory holds their images and nothing else), and has not
\* written the format-C document.
C6_ViaAbort ==
    (cmd = "labelme_to_via" /\ ~AllPolygons) =>
        /\ result = "1"
        /\ log = <<ViaKindError>>
        /\ ~HasFile(via_dir, ViaDocName)
        /\ {e.name : e \in via_dir} = {ViaImageOf(i) : i \in 1..(FirstBadFile - 1)}

\* a corpus whose first file holds a rectangle after a polygon and whose
\* second file holds a polygon: nothing is written at all
C6_Witness ==
    /\ cmd = "labelme_to_via"
    /\ Len(corpus) = 2
    /\ Len(corpus[1].doc.shapes) = 2
    /\ corpus[1].doc.shapes[1].shape_type = "polygon"
    /\ corpus[1].doc.shapes[2].shape_type = "rectangle"
    /\ Len(corpus[2].doc.shapes) = 1
    /\ corpus[2].doc.shapes[1].shape_type = "polygon"
    /\ result = "1"
    /\ via_dir = {}

-----------------------------------------------------------------------------
(* SpecViaIn: via_to_labelme on format-C directories of zero to MaxJson     *)
(* documents whose records hold sound and unsound regions                   *)

\* a sound polygon, a polygon with one y-coordinate missing, and a rectangle
RegionPool ==
    {Region(Str_cat, "polygon", <<QInt(1), QInt(3), QInt(2)>>,
                                <<QInt(1), QInt(1), QInt(4)>>),
     Region(Str_Dog, "polygon", <<QInt(1), QInt(3), QInt(2)>>,
                                <<QInt(1), QInt(1)>>),
     Region(Str_cat, "rect", <<>>, <<>>)}

\* the j-th JSON document of the directory
ViaJsonName(j) ==
    IF j = 1 THEN ViaDocName
    ELSE via_path \o <<"o", "l", "d">> \o IntStr(j) \o DotJson

\* the record of image i with the given regions
RecordOf(i, regions) ==
    [key |-> StemOf(i) \o DotJpg \o IntStr(7 * i),
     value |-> Ann(StemOf(i) \o DotJpg, regions, 7 * i)]

InitViaIn ==
    /\ Fresh
    /\ corpus = <<>>
    /\ images = {}
    /\ label_list = NoTable
    /\ yolo_dir = {}
    /\ \E n \in 0..MaxJson, k \in 0..MaxFiles :
          \E flat \in SeqsUpTo(RegionPool, MaxShapes) :
              \E cut \in [0..k -> 0..Len(flat)] :
                  /\ cut[0] = 0
                  /\ cut[k] = Len(flat)
                  /\ \A i \in 1..k : cut[i - 1] <= cut[i]
                  /\ via_dir =
                        {[name |-> ViaJsonName(j),
                          c |-> Json([i \in 1..k |->
                                        RecordOf(i, SubSeq(flat, cut[i - 1] + 1, cut[i]))])]
                         : j \in 1..n}
                        \cup {[name |-> ViaImageOf(i), c |-> Image(7 * i, 100, 100)]
                              : i \in 1..k}

NextViaIn == ViaToLabelme

SpecViaIn == InitViaIn /\ [][NextViaIn]_vars

\* the JSON documents of the format-C directory
ViaJsons == {e \in via_dir : e.c.k = "json"}

\* C7: via2labelme on a directory with no JSON document, or with more than
\* one, returns 1 with the matching error message (after the command line's
\* warning when there is none) and leaves the output directory empty: no
\* annotation file is written and no image copied.
C7_Cardinality ==
    (cmd = "via_to_labelme" /\ Cardinality(ViaJsons) # 1) =>
        /\ result = "1"
        /\ log = IF ViaJsons = {}
                 THEN <<NoJsonWarning(via_path), ViaNoFileError>>
                 ELSE <<ViaManyFilesError>>
        /\ outdir = {}

\* two documents, each with two records that would convert without error
C7_Witness ==
    /\ cmd = "via_to_labelme"
    /\ Cardinality(ViaJsons) = 2
    /\ \A e \in ViaJsons :
          /\ Len(e.c.doc) = 2
          /\ \A r \in Range(e.c.doc) :
                /\ r.value.regions # <<>>
                /\ \A g \in Range(r.value.regions) :
                      /\ g.shape_attributes.name = "polygon"
                      /\ Len(g.shape_attributes.all_points_x)
                           = Len(g.shape_attributes.all_points_y)
    /\ result = "1"
    /\ outdir = {}

\* the records of the directory's only document, in document order
ViaRecords == (CHOOSE e \in ViaJsons : TRUE).c.doc

Mismatched(g) ==
    Len(g.shape_attributes.all_points_x) # Len(g.shape_attributes.all_points_y)

Unsound(g) == g.shape_attributes.name # "polygon" \/ Mismatched(g)

\* region j of record i is the first unsound region the run meets
FirstUnsound(i, j) ==
    /\ Unsound(ViaRecords[i].value.regions[j])
    /\ \A h \in 1..(j - 1) : ~Unsound(ViaRecords[i].value.regions[h])
    /\ \A r \in 1..(i - 1) : \A g \in Range(ViaRecords[r].value.regions) : ~Unsound(g)

\* C8: when a record of the document holds a region whose x and y lists
\* differ in length, via2labelme returns 1 and writes neither the annotation
\* file nor the image of that record; its message is the point-mismatch
\* message when such a region is the first unsound region the run meets (a
\* region that is no polygon, met earlier, ends the run with its own message).
C8_PointMismatch ==
    (cmd = "via_to_labelme" /\ Cardinality(ViaJsons) = 1) =>
        \A i \in 1..Len(ViaRecords) :
            (\E g \in Range(ViaRecords[i].value.regions) : Mismatched(g)) =>
                /\ result = "1"
                /\ ~HasFile(outdir, BackJsonOf(i))
                /\ ~HasFile(outdir, BackImageOf(i))
                /\ \A r \in 1..i :
                      \A j \in 1..Len(ViaRecords[r].value.regions) :
                          FirstUnsound(r, j) =>
                              log = <<IF Mismatched(ViaRecords[r].value.regions[j])
                                         /\ ViaRecords[r].value.regions[j]
                                                .shape_attributes.name = "polygon"
                                      THEN PointsMismatchError
                                      ELSE LabelmeKindError>>

\* a sound first record, and a second record whose second region lacks a
\* y-coordinate: the first record is written, the second is not
C8_Witness ==
    /\ cmd = "via_to_labelme"
    /\ Cardinality(ViaJsons) = 1
    /\ Len(ViaRecords) = 2
    /\ Len(ViaRecords[1].value.regions) = 1
    /\ ~Unsound(ViaRecords[1].value.regions[1])
    /\ Len(ViaRecords[2].value.regions) = 2
    /\ ~Unsound(ViaRecords[2].value.regions[1])
    /\ Mismatched(ViaRecords[2].value.regions[2])
    /\ result = "1"
    /\ log = <<PointsMismatchError>>
    /\ HasFile(outdir, BackJsonOf(1))
    /\ HasFile(outdir, BackImageOf(1))
    /\ ~HasFile(outdir, BackJsonOf(2))
    /\ ~HasFile(outdir, BackImageOf(2))

-----------------------------------------------------------------------------
(* SpecEmpty: create_empty_txt_yolo, run up to MaxRuns times on directories *)
(* of images with and without their text files                              *)

YoloImageOf(i) == input_dir \o StemOf(i) \o DotJpg
YoloTxtOf(i) == input_dir \o StemOf(i) \o DotTxt

\* the text file of an image: none, an empty one, or one with a box
TxtStates == {"none", "empty", "box"}

OneBox == <<"0", " ", "0", ".", "5", " ", "0", ".", "5", " ", "0", ".", "2",
            " ", "0", ".", "2">>

InitEmpty ==
    /\ Fresh
    /\ corpus = <<>>
    /\ images = {}
    /\ label_list = NoTable
    /\ via_dir = {}
    /\ \E img \in [1..MaxFiles -> BOOLEAN], txt \in [1..MaxFiles -> TxtStates] :
          yolo_dir =
              {[name |-> YoloImageOf(i), c |-> Image(7 * i, 100, 100)]
               : i \in {h \in 1..MaxFiles : img[h]}}
              \cup {[name |-> YoloTxtOf(i),
                     c |-> Text(IF txt[i] = "box" THEN <<OneBox>> ELSE <<>>)]
                    : i \in {h \in 1..MaxFiles : txt[h] # "none"}}

\* the command line: create_empty_txt_yolo(args.input_dir), image_format ".jpg"
CreateEmptyTxtYolo ==
    /\ runs < MaxRuns
    /\ cmd' = "create_empty_txt_yolo"
    /\ runs' = runs + 1
    /\ LET st == create_empty_txt_yolo(yolo_dir, input_dir, DotJpg)
       IN  /\ yolo_dir' = st.out
           /\ result' = st.exc
    /\ log' = CheckInputDir(GlobNames(yolo_dir, input_dir \o StarDotJson), input_dir)
    /\ UNCHANGED <<corpus, images, label_list, outdir, box, via_dir>>

NextEmpty == CreateEmptyTxtYolo

SpecEmpty == InitEmpty /\ [][NextEmpty]_vars

\* C9: a run of create_empty_txt_yolo gives every image that had no text file
\* an empty text file of its base name, and leaves every text file that
\* existed as it was.
C9_EmptyTxtForEveryImage ==
    [][\A i \in 1..MaxFiles :
          /\ (HasFile(yolo_dir, YoloImageOf(i)) /\ ~HasFile(yolo_dir, YoloTxtOf(i)))
                => /\ HasFile(yolo_dir', YoloTxtOf(i))
                   /\ ReadFile(yolo_dir', YoloTxtOf(i)) = Text(<<>>)
          /\ HasFile(yolo_dir, YoloTxtOf(i))
                => /\ HasFile(yolo_dir', YoloTxtOf(i))
                   /\ ReadFile(yolo_dir', YoloTxtOf(i)) = ReadFile(yolo_dir, YoloTxtOf(i))
      ]_vars

-----------------------------------------------------------------------------
(* SpecFormat: the format-B commands and labelme_to_via on files whose      *)
(* imagePath is absent, has no extension, or names the image beside the file *)

DotPng == <<".", "p", "n", "g">>

FormatWarning == "Warning! Format detection unsuccessful"

\* what a file's imagePath holds: no such key, the base name without an
\* extension, or the name of the image beside the file
PathKinds == {"absent", "bare", "jpg", "png"}

ImagePathOf(i, kind) ==
    IF kind = "absent" THEN [present |-> FALSE]
    ELSE IF kind = "bare" THEN PathOf(StemOf(i))
    ELSE IF kind = "png" THEN PathOf(StemOf(i) \o DotPng)
    ELSE PathOf(StemOf(i) \o DotJpg)

\* the image beside the i-th file: a .png when imagePath says so, else a .jpg
ImageNameOf(i, kind) == StemOf(i) \o (IF kind = "png" THEN DotPng ELSE DotJpg)

FormatPolygon == Shape(Str_cat, "polygon", <<Pt(10, 20), Pt(30, 20), Pt(20, 60)>>)

InitFormat ==
    /\ Fresh
    /\ label_list = NoTable
    /\ via_dir = {}
    /\ yolo_dir = {}
    /\ \E k \in 0..MaxFiles :
          \E kind \in [1..k -> PathKinds], n \in [1..k -> 0..1] :
              /\ corpus = [i \in 1..k |->
                             [path |-> JsonPath(i),
                              doc  |-> Doc(ImagePathOf(i, kind[i]), 100, 100,
                                           [j \in 1..n[i] |-> FormatPolygon])]]
              /\ images = {[name |-> input_dir \o ImageNameOf(i, kind[i]),
                            c |-> Image(7 * i, 100, 100)] : i \in 1..k}

NextFormat ==
    \/ LabelmeRectToYolo
    \/ LabelmePolyToYolo
    \/ LabelmePolyToYolov4c
    \/ LabelmeToVia

SpecFormat == InitFormat /\ [][NextFormat]_vars

\* the files whose imagePath is absent or has no extension
NoFormat ==
    {i \in 1..Len(corpus) :
        \/ ~corpus[i].doc.imagePath.present
        \/ "." \notin Range(corpus[i].doc.imagePath.value)}

\* the directory a command writes, and the image name it gives the i-th file
\* when the suffix is ".jpg"
Written == IF cmd = "labelme_to_via" THEN via_dir ELSE outdir
JpgCopyOf(i) ==
    (IF cmd = "labelme_to_via" THEN via_path ELSE output_dir) \o StemOf(i) \o DotJpg

\* C11: when imagePath of a file is absent or malformed (a path with no
\* extension), the format-B converters and labelme2via print the diagnostic
\* for that file, use ".jpg" for its image and go on: the run does not fail,
\* and the image is copied under its .jpg name.
C11_FormatFallback ==
    (cmd # "none" /\ NoFormat # {}) =>
        /\ result = "None"
        /\ Cardinality({j \in 1..Len(log) : log[j] = FormatWarning})
             = Cardinality(NoFormat)
        /\ \A i \in NoFormat : HasFile(Written, JpgCopyOf(i))

-----------------------------------------------------------------------------
(* SpecNames: via_to_labelme on one document whose records name their images *)
(* with and without the extension text in the stem                           *)

\* image file names: "a.jpg", "jpg.jpg", "ajpg.jpg", "a.b.jpg", "g.g"
NamePool ==
    {<<"a">> \o DotJpg,
     <<"j", "p", "g">> \o DotJpg,
     <<"a", "j", "p", "g">> \o DotJpg,
     <<"a", ".", "b">> \o DotJpg,
     <<"g", ".", "g">>}

NameRegion == Region(Str_cat, "polygon", <<QInt(1), QInt(3), QInt(2)>>,
                                         <<QInt(1), QInt(1), QInt(4)>>)

\* the i-th record of the document: an image name, and its regions
RecordNamed(i, name, regions) ==
    [key |-> name \o IntStr(7 * i), value |-> Ann(name, regions, 7 * i)]

InitNames ==
    /\ Fresh
    /\ corpus = <<>>
    /\ images = {}
    /\ label_list = NoTable
    /\ yolo_dir = {}
    /\ \E k \in 0..MaxFiles :
          \E name \in [1..k -> NamePool], n \in [1..k -> 0..1] :
              via_dir =
                  {[name |-> ViaDocName,
                    c |-> Json([i \in 1..k |->
                                  RecordNamed(i, name[i],
                                              [j \in 1..n[i] |-> NameRegion])])]}
                  \cup {[name |-> OsPathJoin(via_path, name[i]),
                         c |-> Image(7 * i, 100, 100)] : i \in 1..k}

NextNames == ViaToLabelme

SpecNames == InitNames /\ [][NextNames]_vars

\* the file names of the records of the document
RecordNames == {r.value.filename : r \in Range(ViaRecords)}

\* a name with what follows its final dot replaced by "json"
ExtensionReplaced(name) ==
    SubSeq(name, 1, Len(name) - Len(SplitLast(name, "."))) \o StrJson

\* the annotation files of the output directory
AnnotationsWritten == {e.name : e \in {x \in outdir : x.c.k = "json"}}

\* C12: via2labelme names the annotation file of every record by replacing
\* the extension of the record's image file name with "json", the part before
\* the final dot unchanged, whatever the name, a stem that contains the
\* extension text included.
C12_AnnotationName ==
    (cmd = "via_to_labelme" /\ result = "None") =>
        AnnotationsWritten
            = {OsPathJoin(output_dir, ExtensionReplaced(name)) : name \in RecordNames}

=============================================================================
